---- MODULE Spec2Model ----
(***************************************************************************)
(* PropertyFinder scraper, src/src/main.js: the crawl controller           *)
(* (requestHandler, main), the URL builder and the record merge.           *)
(*                                                                         *)
(* Conventions.                                                            *)
(*  - A JavaScript object is a function from its own keys to values; all   *)
(*    values are strings, with Null and Undefined as the two absent ones.  *)
(*  - A JavaScript number that may be fractional (results_wanted,          *)
(*    max_pages) is held in halves: the integer 2*x. NotFinite stands for  *)
(*    every value that Number.isFinite rejects.                            *)
(*  - The request handler is an async function: each action runs it from   *)
(*    one await to the next, which is the unit JavaScript runs atomically. *)
(*  - Crawlee's queue, retries, handler timeout and pool abort are the     *)
(*    environment the handler runs in (main.js:336-340).                   *)
(***************************************************************************)
EXTENDS Integers, Sequences, FiniteSets, TLC

\* ------------------------------------------------------------------ bounds

\* Distinct listing URLs the site can serve.
NumUrls == 2
\* Cards one listing page can hold.
MaxCards == 2
\* results_wanted and max_pages inputs range over 0 .. bound, in halves.
MaxWantedHalves == 4
MaxPagesHalves == 3
\* Listing pages the site serves before the model stops paginating.
MaxPageNo == 2
\* Faults the environment injects in one run: handler timeouts, pushData
\* rejections and navigation failures together.
MaxFaults == 1
\* Query parameters of a startUrl handed to buildSearchUrl.
MaxQueryLen == 3
MaxTextLen == 4
MaxBlocks == 6

\* ------------------------------------------------------- program constants

\* main.js:338
maxConcurrency == 5
\* main.js:339
maxRequestRetries == 3
\* main.js:311, the page cap used when max_pages is not finite.
DEFAULT_MAX_PAGES == 20
\* main.js:310, Number.MAX_SAFE_INTEGER, held as the largest even integer
\* TLC's 32-bit arithmetic has: no count of a run comes near either.
MAX_SAFE_INTEGER == 2147483646

Null == "null"
Undefined == "undefined"
NoValue == {Null, Undefined, ""}

UrlNames == <<"https://pf/u1", "https://pf/u2", "https://pf/u3", "https://pf/u4">>
Urls == {UrlNames[i] : i \in 1..NumUrls}

\* JavaScript String(n) for the page numbers a run can reach.
PageStr == <<"1", "2", "3", "4", "5", "6", "7">>
String(n) == PageStr[n]

\* JavaScript truthiness of a string-or-absent value.
Truthy(v) == v \notin NoValue

\* a || b
Or(a, b) == IF Truthy(a) THEN a ELSE b

\* { ...a, ...b }: every own key of b wins, whatever its value.
Spread(a, b) ==
    [k \in (DOMAIN a) \cup (DOMAIN b) |-> IF k \in DOMAIN b THEN b[k] ELSE a[k]]

\* A number input: finite with its value in halves, or not finite.
Num(h) == [finite |-> TRUE, halves |-> h]
NotFinite == [finite |-> FALSE, halves |-> 0]

Max(a, b) == IF a >= b THEN a ELSE b

\* ------------------------------------------------------------- URL builder

\* A URL string: its path segments and its query as the list of name/value
\* pairs written in it, each value as it is spelled. A startUrl input is
\* one of these, absent, or a string new URL() rejects.
NoStartUrl == [kind |-> "none", path |-> <<>>, query |-> <<>>]
BadStartUrl == [kind |-> "bad", path |-> <<>>, query |-> <<>>]
Url(path, query) == [kind |-> "url", path |-> path, query |-> query]
Throws == [kind |-> "throws", path |-> <<>>, query |-> <<>>]

\* The path of the sample startUrl, /en/search
SearchPath == << <<"e", "n">>, <<"s", "e", "a", "r", "c", "h">> >>

RECURSIVE DropName(_, _)
DropName(q, name) ==
    IF q = <<>> THEN <<>>
    ELSE IF Head(q)[1] = name THEN DropName(Tail(q), name)
    ELSE <<Head(q)>> \o DropName(Tail(q), name)

RECURSIVE SetFirst(_, _, _)
\* The first pair called name gets the value; later pairs of that name go.
SetFirst(q, name, value) ==
    IF q = <<>> THEN <<>>
    ELSE IF Head(q)[1] = name
         THEN << <<name, value>> >> \o DropName(Tail(q), name)
         ELSE <<Head(q)>> \o SetFirst(Tail(q), name, value)

\* The spellings of a value with a space in it, and the value they stand for.
FormDecode(written) ==
    IF written \in {"sea%20view", "sea+view"} THEN "sea view" ELSE written

\* application/x-www-form-urlencoded: a space is written as +
FormEncode(value) == IF value = "sea view" THEN "sea+view" ELSE value

\* url.searchParams: the pairs of the query string, decoded
ParseQuery(q) == [i \in 1..Len(q) |-> <<q[i][1], FormDecode(q[i][2])>>]

\* A change to url.searchParams writes the whole query string anew.
SerializeQuery(list) == [i \in 1..Len(list) |-> <<list[i][1], FormEncode(list[i][2])>>]

\* Mutant of SearchParamsSet: append() where set() is meant.
SearchParamsAppend(q, name, value) == Append(q, <<name, value>>)

\* url.searchParams.set(name, value), main.js:39 and 60
SearchParamsSet(q, name, value) ==
    IF \E i \in 1..Len(q) : q[i][1] = name
    THEN SetFirst(q, name, value)
    ELSE Append(q, <<name, value>>)

\* The sample strings a location or property type input takes, as characters.
Chars(s) ==
    CASE s = "dubai" -> <<"d", "u", "b", "a", "i">>
      [] s = "Dubai  Marina!" ->
            <<"D", "u", "b", "a", "i", " ", " ", "M", "a", "r", "i", "n", "a", "!">>
      [] s = "apartment" -> <<"a", "p", "a", "r", "t", "m", "e", "n", "t">>
      [] s = "property" -> <<"p", "r", "o", "p", "e", "r", "t", "y">>
      [] OTHER -> <<>>

UpperCase == <<"A", "B", "C", "D", "E", "F", "G", "H", "I", "J", "K", "L", "M",
               "N", "O", "P", "Q", "R", "S", "T", "U", "V", "W", "X", "Y", "Z">>
LowerCase == <<"a", "b", "c", "d", "e", "f", "g", "h", "i", "j", "k", "l", "m",
               "n", "o", "p", "q", "r", "s", "t", "u", "v", "w", "x", "y", "z">>
Digits == {"0", "1", "2", "3", "4", "5", "6", "7", "8", "9"}

ToLower(c) ==
    IF \E i \in 1..26 : UpperCase[i] = c
    THEN LowerCase[CHOOSE i \in 1..26 : UpperCase[i] = c]
    ELSE c

IsAlnum(c) == c \in Digits \/ \E i \in 1..26 : LowerCase[i] = c

Kept(c) == c # ""

\* .replace(/[^a-z0-9]+/g, '-'): a run of other characters becomes one
\* hyphen, written here at the run's last character.
Hyphenate(s) ==
    SelectSeq([i \in 1..Len(s) |->
                  IF IsAlnum(s[i]) THEN s[i]
                  ELSE IF i < Len(s) /\ ~IsAlnum(s[i + 1]) THEN ""
                  ELSE "-"],
              Kept)

\* .replace(/^-+|-+$/g, ''), on a string whose hyphens never repeat
StripHyphens(s) ==
    LET a == IF s # <<>> /\ Head(s) = "-" THEN Tail(s) ELSE s
    IN IF a # <<>> /\ a[Len(a)] = "-" THEN SubSeq(a, 1, Len(a) - 1) ELSE a

\* normalize, main.js:48-52
normalize(value) ==
    LET lower == [i \in 1..Len(Chars(value)) |-> ToLower(Chars(value)[i])]
    IN CHOOSE slug \in {StripHyphens(h) : h \in {Hyphenate(l) : l \in {lower}}} : TRUE

\* buildSearchUrl, main.js:36-62; Throws when new URL or the location
\* check throws.
buildSearchUrl(startUrl, location, propertyType, categoryType, page) ==
    IF startUrl.kind = "bad" THEN Throws
    ELSE IF startUrl.kind = "url"
    THEN Url(startUrl.path,
             SerializeQuery(SearchParamsSet(ParseQuery(startUrl.query),
                                            "page", String(page))))
    ELSE IF ~Truthy(location) THEN Throws
    ELSE LET action == IF categoryType = 2 THEN <<"r", "e", "n", "t">>
                       ELSE <<"s", "a", "l", "e">>
             actionPath == IF categoryType = 2 THEN <<"r", "e", "n", "t">>
                           ELSE <<"b", "u", "y">>
             locSlug == normalize(location)
             typeSlug == normalize(Or(propertyType, "property"))
         IN Url(<<<<"e", "n">>, actionPath, locSlug,
                  typeSlug \o <<"s", "-", "f", "o", "r", "-">> \o action>>,
                SerializeQuery(SearchParamsSet(ParseQuery(<<>>),
                                               "page", String(page))))

\* ------------------------------------------------------------------- state

VARIABLES
    input,          \* Actor.getInput() after the defaults of main.js:290-299
    phase,          \* "init", "running", "completed" (run() resolved), "exited"
    exitCode,       \* process exit code: 0, or 1 after a fatal error
    reported,       \* totalSaved as logged by main.js:439, -1 before that
    seenUrls,       \* main.js:332
    enqueuedPages,  \* main.js:333
    totalSaved,     \* main.js:334
    requests,       \* the crawler's request queue, handled requests included
    attempts,       \* runs of requestHandler that stand at an await
    aborted,        \* crawler.autoscaledPool.abort() was called
    dataset,        \* the records Actor.pushData accepted, in order
    provenance,     \* for each record of dataset: how it was made
    fetched,        \* page numbers of the listing fetches issued
    firstPage,      \* the URLs of page 1's cards as the handler first saw
                    \* them, in page order, each URL once
    timeouts,       \* handler timeouts so far
    sinkRejects,    \* pushData rejections so far
    fetchFails,     \* navigation failures so far
    urlArgs,        \* arguments of a buildSearchUrl call
    urlOut,         \* its result
    numberText,     \* argument of a numberFromText call, as characters
    numberOut,      \* its result
    ldBlocks,       \* the ld+json blocks of a page extractJsonLd is called on
    ldOut,          \* its result
    tierPage,       \* a listing page the extractors are tried on
    tierOut         \* the cards they gave and the tiers that ran

\* The variables of the helpers called on their own.
pureVars == <<numberText, numberOut, ldBlocks, ldOut, tierPage, tierOut>>

vars == <<input, phase, exitCode, reported, seenUrls, enqueuedPages, totalSaved,
          requests, attempts, aborted, dataset, provenance, fetched, firstPage,
          timeouts, sinkRejects, fetchFails, urlArgs, urlOut, pureVars>>

crawlVars == <<input, phase, exitCode, reported, seenUrls, enqueuedPages,
               totalSaved, requests, attempts, aborted, dataset, provenance,
               fetched, firstPage, timeouts, sinkRejects, fetchFails>>

\* ------------------------------------------------------------------ inputs

StartUrls ==
    {NoStartUrl, BadStartUrl,
     Url(SearchPath, << <<"page", "1">>, <<"c", "1">> >>)}

Locations == {"", "dubai"}

CategoryTypes == {1, 2, 3}

NumberInputs(maxHalves) == {Num(h) : h \in 0..maxHalves} \cup {NotFinite}

\* The limits when another input is the one that varies (2 results, 2 pages).
TwoHalves == Num(4)

\* The inputs of the runs, one factor at a time: every combination of the
\* search criteria, every results_wanted and every max_pages, each under one
\* setting of the others; detail pages are on and off as results_wanted varies.
Inputs ==
    [startUrl : StartUrls, location : Locations, propertyType : {"apartment"},
     categoryType : CategoryTypes,
     results_wanted : {TwoHalves}, max_pages : {TwoHalves},
     collectDetails : {FALSE}]
    \cup
    [startUrl : {NoStartUrl}, location : {"dubai"}, propertyType : {"apartment"},
     categoryType : {1},
     results_wanted : NumberInputs(MaxWantedHalves), max_pages : {TwoHalves},
     collectDetails : BOOLEAN]
    \cup
    [startUrl : {NoStartUrl}, location : {"dubai"}, propertyType : {"apartment"},
     categoryType : {1},
     results_wanted : {TwoHalves}, max_pages : NumberInputs(MaxPagesHalves),
     collectDetails : {FALSE}]

\* main.js:308-310, in halves
RESULTS_WANTED ==
    IF input.results_wanted.finite
    THEN Max(2, input.results_wanted.halves)
    ELSE MAX_SAFE_INTEGER

\* Mutant of MAX_PAGES: the input max_pages ignored.
MAX_PAGES_Default == 2 * DEFAULT_MAX_PAGES

\* main.js:311, in halves
MAX_PAGES ==
    IF input.max_pages.finite
    THEN Max(2, input.max_pages.halves)
    ELSE 2 * DEFAULT_MAX_PAGES

\* The search URL of a page under the run's criteria (main.js:405-411, 421-427).
PageUrl(page) ==
    buildSearchUrl(input.startUrl, input.location, input.propertyType,
                   input.categoryType, page)

\* ------------------------------------------------------------ page contents

\* The site's origin, https://www.propertyfinder.ae, under the short name
\* the sample URLs use.
Origin == <<"h", "t", "t", "p", "s", ":", "/", "/", "p", "f">>

\* A link as the page gives it (an href attribute, a slug): absent, empty,
\* an absolute URL, a path on the site, a relative path whose first name
\* begins with "http", and a reference with a malformed host.
Links == Urls \cup {Undefined, "", "/u1", "httpdocs/u2", "//["}

\* The sample links and URLs as characters.
LinkChars(s) ==
    CASE s = "https://pf/u1" -> Origin \o <<"/", "u", "1">>
      [] s = "https://pf/u2" -> Origin \o <<"/", "u", "2">>
      [] s = "https://pf/u3" -> Origin \o <<"/", "u", "3">>
      [] s = "https://pf/u4" -> Origin \o <<"/", "u", "4">>
      [] s = "https://pf/httpdocs/u2" ->
            Origin \o <<"/", "h", "t", "t", "p", "d", "o", "c", "s", "/", "u", "2">>
      [] s = "/u1" -> <<"/", "u", "1">>
      [] s = "httpdocs/u2" -> <<"h", "t", "t", "p", "d", "o", "c", "s", "/", "u", "2">>
      [] s = "//[" -> <<"/", "/", "[">>
      [] OTHER -> <<>>

\* The string of a sequence of characters.
LinkText(c) ==
    CHOOSE s \in Links \cup {UrlNames[i] : i \in 1..4} \cup {"https://pf/httpdocs/u2"} :
        LinkChars(s) = c

\* href.startsWith(prefix)
StartsWith(c, prefix) ==
    Len(c) >= Len(prefix) /\ SubSeq(c, 1, Len(prefix)) = prefix

\* new URL(href, base) throws on a host that opens a bracket and never
\* closes it.
InvalidUrl(c) ==
    /\ StartsWith(c, <<"/", "/", "[">>)
    /\ ~\E i \in 1..Len(c) : c[i] = "]"

\* new URL(href, 'https://www.propertyfinder.ae').href for a path: the
\* base has the path "/", so a relative path hangs under the origin.
ResolveUrl(c) ==
    IF StartsWith(c, <<"/">>) THEN Origin \o c ELSE Origin \o <<"/">> \o c

\* toAbsoluteUrl, main.js:12-20
toAbsoluteUrl(href) ==
    IF ~Truthy(href) THEN Null
    ELSE IF StartsWith(LinkChars(href), <<"h", "t", "t", "p">>) THEN href
    ELSE IF InvalidUrl(LinkChars(href)) THEN Null
    ELSE LinkText(ResolveUrl(LinkChars(href)))

\* What the site shows for a listing URL. The fields other than url are a
\* function of the URL: the first URL's card is fully populated, the others
\* lack a title and a price.
Rich(u) == u = UrlNames[1]

\* A property as extractNextData maps it, main.js:77-93
NextCard(link) ==
    LET u == toAbsoluteUrl(link)
    IN [title |-> IF Rich(u) THEN "Marina flat" ELSE Undefined,
        price |-> IF Rich(u) THEN "5" ELSE Null,
        propertyType |-> IF Rich(u) THEN "villa" ELSE Undefined,
        url |-> u]

\* A card as extractListingCards builds it, main.js:114-128 and 143-156
HtmlCard(link) ==
    LET u == toAbsoluteUrl(link)
    IN [title |-> IF Rich(u) THEN "Marina flat" ELSE "Property",
        price |-> IF Rich(u) THEN "5" ELSE Null,
        url |-> u]

HasUrl(card) == Truthy(card.url)

\* extractNextData, main.js:77-94: the properties mapped, those without a
\* url filtered out.
extractNextData(links) ==
    SelectSeq([i \in 1..Len(links) |-> NextCard(links[i])], HasUrl)

\* extractListingCards, main.js:106-112 and 135-141: an element whose link
\* has no url is skipped.
extractListingCards(links) ==
    SelectSeq([i \in 1..Len(links) |-> HtmlCard(links[i])], HasUrl)

\* The links of the cards of a page, in page order.
LinkLists(links) == UNION {[1..n -> links] : n \in 0..MaxCards}

\* What each extractor returns on a fetched listing page whose cards carry
\* the links of l. An empty nextData stands for extractNextData's null as
\* well (script block absent, unparsable, no properties): main.js:350
\* treats the two alike.
PagesOf(lists) ==
    {[nextData |-> extractNextData(l), html |-> <<>>] : l \in lists \ {<<>>}}
    \cup {[nextData |-> <<>>, html |-> extractListingCards(l)] : l \in lists}

\* The links toAbsoluteUrl turns into an absolute URL or into null.
UrlLists == LinkLists(Links \ {"httpdocs/u2"})

\* The listing pages of a site with such links.
ListingPages == PagesOf(UrlLists)

\* The listing pages of a site with any of the links.
LinkPages == PagesOf(LinkLists(Links))

\* Mutant of ExtractCards: the results of the extractors merged.
ExtractCardsMerged(page) == page.nextData \o page.html

\* main.js:347-355: the cards of a page
ExtractCards(page) ==
    IF Len(page.nextData) > 0
    THEN page.nextData
    ELSE page.html

\* What a fetched detail page yields: extractDetailFromHtml's fields
\* (main.js:255-268, every key present, null when not found) and
\* extractJsonLd's object (main.js:179-193), NoObject when no block matches
\* (main.js:281 turns that null into {}).
Html(title, price, description) ==
    [title |-> title, price |-> price, description |-> description]

NoObject == [k \in {} |-> Null]

DetailPages ==
    {[html |-> Html(Null, Null, Null), jsonLd |-> NoObject],
     [html |-> Html("Detail title", Null, Null),
      jsonLd |-> [title |-> Undefined, price |-> "9", description |-> "LD text",
                  url |-> "https://other/page"]]}

\* Mutant of DetailData: the trailing url left out of the spread.
DetailDataNoUrl(page, url) ==
    Spread(Spread(page.html, [url |-> url]), page.jsonLd)

\* fetchDetailWithCheerio, main.js:281-283
DetailData(page, url) ==
    LET htmlData == Spread(page.html, [url |-> url])
    IN Spread(Spread(htmlData, page.jsonLd), [url |-> url])

\* Mutant of BaseRecord: the card as it is, propertyType not defaulted.
BaseRecordNoDefault(card) == card

\* main.js:366-370
BaseRecord(card) ==
    Spread(card,
           [propertyType |-> Or(IF "propertyType" \in DOMAIN card
                                THEN card.propertyType ELSE Undefined,
                                input.propertyType),
            url |-> card.url])

\* main.js:385
MergedRecord(baseRecord, detailData) == Spread(baseRecord, detailData)

\* ----------------------------------------------------------- crawl controller

\* Mutant of NextNew: the loop without the seenUrls check.
NextNewNoDedup(cards, k, seen) == k

RECURSIVE NextNew(_, _, _)
\* main.js:362-363: the index, from k on, of the first card the loop does
\* not skip; Len(cards) + 1 when it skips them all.
NextNew(cards, k, seen) ==
    IF k > Len(cards) THEN k
    ELSE IF ~Truthy(cards[k].url) \/ cards[k].url \in seen
         THEN NextNew(cards, k + 1, seen)
         ELSE k

RECURSIVE DistinctUrls(_, _)
\* The URLs of a page's cards in page order, without the repeats.
DistinctUrls(cards, seen) ==
    IF cards = <<>> THEN <<>>
    ELSE IF Head(cards).url \in seen THEN DistinctUrls(Tail(cards), seen)
    ELSE <<Head(cards).url>> \o DistinctUrls(Tail(cards), seen \cup {Head(cards).url})

\* Mutant of QuotaReached: > where >= is meant.
QuotaExceeded(saved) == 2 * saved > RESULTS_WANTED

\* main.js:375 and 395
QuotaReached(saved) == 2 * saved >= RESULTS_WANTED

\* Mutant of ShouldPaginate: <= where < is meant.
ShouldPaginateInclusive(pageNo, saved) ==
    2 * pageNo <= MAX_PAGES /\ ~QuotaReached(saved)

\* main.js:403
ShouldPaginate(pageNo, saved) == 2 * pageNo < MAX_PAGES /\ ~QuotaReached(saved)

Request(url, pageNo) ==
    [url |-> url, pageNo |-> pageNo, retryCount |-> 0, state |-> "pending"]

\* crawler.addRequests: a URL the queue already knows is not added again.
AddRequest(reqs, url, pageNo) ==
    IF \E r \in reqs : r.url = url THEN reqs ELSE reqs \cup {Request(url, pageNo)}

\* The request an attempt runs for.
RequestOf(reqs, att) ==
    {r \in reqs : r.pageNo = att.pageNo /\ r.retryCount = att.retryCount
                  /\ r.state = "running"}

\* The handler returned: Crawlee marks the request handled. A handler that
\* timed out is no longer the request's.
Handled(reqs, att) ==
    IF att.zombie THEN reqs
    ELSE (reqs \ RequestOf(reqs, att))
         \cup {[r EXCEPT !.state = "handled"] : r \in RequestOf(reqs, att)}

\* The handler threw or timed out: the request is retried, up to
\* maxRequestRetries times (main.js:339).
Reclaimed(reqs, att) ==
    IF att.zombie THEN reqs
    ELSE (reqs \ RequestOf(reqs, att))
         \cup {IF r.retryCount < maxRequestRetries
               THEN [r EXCEPT !.state = "pending", !.retryCount = @ + 1]
               ELSE [r EXCEPT !.state = "failed"] : r \in RequestOf(reqs, att)}

\* main.js:362-417 from card k on, up to the next await or the handler's end,
\* with totalSaved already at saved and the queue at reqs.
Resume(att, k, saved, reqs) ==
    LET j == NextNew(att.cards, k, seenUrls)
        nextPage == att.pageNo + 1
        nextUrl == PageUrl(nextPage)
    IN IF j <= Len(att.cards)
       THEN /\ seenUrls' = seenUrls \cup {att.cards[j].url}
            /\ attempts' = (attempts \ {att}) \cup
                 {[att EXCEPT !.idx = j,
                              !.pc = IF input.collectDetails
                                     THEN "fetchDetail" ELSE "pushBase",
                              !.baseRecord = BaseRecord(att.cards[j]),
                              !.record = BaseRecord(att.cards[j]),
                              !.detail = NoObject, !.caught = "none"]}
            /\ requests' = reqs
            /\ UNCHANGED enqueuedPages
       ELSE /\ attempts' = attempts \ {att}
            /\ UNCHANGED seenUrls
            /\ IF ShouldPaginate(att.pageNo, saved) /\ nextUrl \notin enqueuedPages
               THEN /\ enqueuedPages' = enqueuedPages \cup {nextUrl}
                    /\ requests' = AddRequest(Handled(reqs, att), nextUrl, nextPage)
               ELSE /\ UNCHANGED enqueuedPages
                    /\ requests' = Handled(reqs, att)

\* main.js:375-380 and 395-399: after totalSaved++, stop the pool and return
\* when the quota is reached, else go on with the next card.
AfterSave(att, saved) ==
    IF QuotaReached(saved)
    THEN /\ aborted' = TRUE
         /\ attempts' = attempts \ {att}
         /\ requests' = Handled(requests, att)
         /\ UNCHANGED <<seenUrls, enqueuedPages>>
    ELSE /\ Resume(att, att.idx + 1, saved, requests)
         /\ UNCHANGED aborted

\* Mutant of CategoryValid: the check left out.
CategoryUnchecked(categoryType) == TRUE

\* main.js:301
CategoryValid(categoryType) == categoryType = 1 \/ categoryType = 2

\* Mutant of HasCriteria: a location demanded whatever the startUrl.
HasLocation(startUrl, location) == Truthy(location)

\* main.js:304
HasCriteria(startUrl, location) == startUrl.kind # "none" \/ Truthy(location)

InputValid ==
    CategoryValid(input.categoryType) /\ HasCriteria(input.startUrl, input.location)

Running == phase = "running" /\ ~aborted

CanFail == timeouts + sinkRejects + fetchFails < MaxFaults

HandlerAlive == phase \in {"running", "completed"}

NewAttempt(r, cards) ==
    [pageNo |-> r.pageNo, retryCount |-> r.retryCount, cards |-> cards, idx |-> 0,
     pc |-> "start", baseRecord |-> NoObject, record |-> NoObject,
     detail |-> NoObject, caught |-> "none", zombie |-> FALSE]

\* How a record of dataset came about: "listing" (details off), "merged", or
\* "fallback" with what the catch block caught ("fetch" or "push").
Produced(kind, att) ==
    [kind |-> kind, caught |-> att.caught, pageNo |-> att.pageNo,
     baseRecord |-> att.baseRecord, detail |-> att.detail]

\* main.js:301-306 with 442-446: a configuration error is fatal.
ConfigError ==
    /\ phase = "init"
    /\ ~InputValid
    /\ phase' = "exited"
    /\ exitCode' = 1
    /\ UNCHANGED <<firstPage, input, reported, seenUrls, enqueuedPages, totalSaved, requests,
                   attempts, aborted, dataset, provenance, fetched, timeouts,
                   sinkRejects, fetchFails, urlArgs, urlOut, pureVars>>

\* main.js:421 with 38 and 442-446: new URL(startUrl) throws in main.
StartUrlError ==
    /\ phase = "init"
    /\ InputValid
    /\ PageUrl(1) = Throws
    /\ phase' = "exited"
    /\ exitCode' = 1
    /\ UNCHANGED <<firstPage, input, reported, seenUrls, enqueuedPages, totalSaved, requests,
                   attempts, aborted, dataset, provenance, fetched, timeouts,
                   sinkRejects, fetchFails, urlArgs, urlOut, pureVars>>

\* Mutant of StartCrawl: the initial URL not recorded in enqueuedPages.
StartCrawlUnrecorded ==
    /\ phase = "init"
    /\ InputValid
    /\ PageUrl(1) # Throws
    /\ requests' = {Request(PageUrl(1), 1)}
    /\ phase' = "running"
    /\ UNCHANGED <<firstPage, input, exitCode, reported, seenUrls, enqueuedPages,
                   totalSaved, attempts, aborted, dataset, provenance, fetched,
                   timeouts, sinkRejects, fetchFails, urlArgs, urlOut, pureVars>>

\* main.js:421-437: the first page is enqueued and the crawler started.
StartCrawl ==
    /\ phase = "init"
    /\ InputValid
    /\ PageUrl(1) # Throws
    /\ enqueuedPages' = enqueuedPages \cup {PageUrl(1)}
    /\ requests' = {Request(PageUrl(1), 1)}
    /\ phase' = "running"
    /\ UNCHANGED <<firstPage, input, exitCode, reported, seenUrls, totalSaved, attempts,
                   aborted, dataset, provenance, fetched, timeouts, sinkRejects,
                   fetchFails, urlArgs, urlOut, pureVars>>

CanFetch(r) ==
    /\ Running
    /\ r.state = "pending"
    /\ Cardinality({q \in requests : q.state = "running"}) < maxConcurrency

\* The fetch of a listing page fails: the request is retried (main.js:339).
NavigationFailed(r) ==
    /\ CanFetch(r)
    /\ CanFail
    /\ fetchFails' = fetchFails + 1
    /\ fetched' = fetched \cup {r.pageNo}
    /\ requests' = (requests \ {r}) \cup
          {IF r.retryCount < maxRequestRetries
           THEN [r EXCEPT !.retryCount = @ + 1]
           ELSE [r EXCEPT !.state = "failed"]}
    /\ UNCHANGED <<firstPage, input, phase, exitCode, reported, seenUrls, enqueuedPages,
                   totalSaved, attempts, aborted, dataset, provenance, timeouts,
                   sinkRejects, urlArgs, urlOut, pureVars>>

\* The pages the site serves for a page number: nothing past MaxPageNo.
PagesAt(pageNo) ==
    IF pageNo <= MaxPageNo THEN ListingPages
    ELSE {[nextData |-> <<>>, html |-> <<>>]}

\* Mutant of ListingEmpty: a page without cards treated as a fatal error.
ListingEmptyFatal(r, page) ==
    /\ CanFetch(r)
    /\ ExtractCards(page) = <<>>
    /\ fetched' = fetched \cup {r.pageNo}
    /\ phase' = "exited"
    /\ exitCode' = 1
    /\ UNCHANGED <<firstPage, input, reported, seenUrls, enqueuedPages, totalSaved,
                   requests, attempts, aborted, dataset, provenance, timeouts,
                   sinkRejects, fetchFails, urlArgs, urlOut, pureVars>>

\* main.js:342-360: a listing page with no cards; the handler returns.
ListingEmpty(r, page) ==
    /\ CanFetch(r)
    /\ ExtractCards(page) = <<>>
    /\ fetched' = fetched \cup {r.pageNo}
    /\ requests' = (requests \ {r}) \cup {[r EXCEPT !.state = "handled"]}
    /\ UNCHANGED <<firstPage, input, phase, exitCode, reported, seenUrls, enqueuedPages,
                   totalSaved, attempts, aborted, dataset, provenance, timeouts,
                   sinkRejects, fetchFails, urlArgs, urlOut, pureVars>>

\* main.js:342-417: a listing page with cards, up to the handler's first await.
ListingCards(r, page) ==
    /\ CanFetch(r)
    /\ ExtractCards(page) # <<>>
    /\ fetched' = fetched \cup {r.pageNo}
    /\ Resume(NewAttempt(r, ExtractCards(page)), 1, totalSaved,
              (requests \ {r}) \cup {[r EXCEPT !.state = "running"]})
    /\ firstPage' = IF r.pageNo = 1 /\ firstPage = <<>>
                    THEN DistinctUrls(ExtractCards(page), {}) ELSE firstPage
    /\ UNCHANGED <<input, phase, exitCode, reported, totalSaved, aborted, dataset,
                   provenance, timeouts, sinkRejects, fetchFails, urlArgs, urlOut, pureVars>>

\* main.js:373-381: pushData(baseRecord) resolved, details off.
PushBase(att) ==
    /\ HandlerAlive
    /\ att.pc = "pushBase"
    /\ dataset' = Append(dataset, att.record)
    /\ provenance' = Append(provenance, Produced("listing", att))
    /\ totalSaved' = totalSaved + 1
    /\ AfterSave(att, totalSaved + 1)
    /\ UNCHANGED <<firstPage, input, phase, exitCode, reported, fetched, timeouts,
                   sinkRejects, fetchFails, urlArgs, urlOut, pureVars>>

\* main.js:384-385: the detail page arrived and was merged.
DetailFetched(att, page) ==
    /\ HandlerAlive
    /\ att.pc = "fetchDetail"
    /\ attempts' = (attempts \ {att}) \cup
          {[att EXCEPT !.pc = "pushMerged",
                       !.detail = DetailData(page, att.baseRecord.url),
                       !.record = MergedRecord(att.baseRecord,
                                               DetailData(page, att.baseRecord.url))]}
    /\ UNCHANGED <<firstPage, input, phase, exitCode, reported, seenUrls, enqueuedPages,
                   totalSaved, requests, aborted, dataset, provenance, fetched,
                   timeouts, sinkRejects, fetchFails, urlArgs, urlOut, pureVars>>

\* main.js:384, 389-391: the detail fetch threw; the catch block runs.
DetailFailed(att) ==
    /\ HandlerAlive
    /\ att.pc = "fetchDetail"
    /\ attempts' = (attempts \ {att}) \cup
          {[att EXCEPT !.pc = "pushFallback", !.record = att.baseRecord,
                       !.caught = "fetch"]}
    /\ UNCHANGED <<firstPage, input, phase, exitCode, reported, seenUrls, enqueuedPages,
                   totalSaved, requests, aborted, dataset, provenance, fetched,
                   timeouts, sinkRejects, fetchFails, urlArgs, urlOut, pureVars>>

\* main.js:386-388, 395-399: pushData(record) resolved.
PushMerged(att) ==
    /\ HandlerAlive
    /\ att.pc = "pushMerged"
    /\ dataset' = Append(dataset, att.record)
    /\ provenance' = Append(provenance, Produced("merged", att))
    /\ totalSaved' = totalSaved + 1
    /\ AfterSave(att, totalSaved + 1)
    /\ UNCHANGED <<firstPage, input, phase, exitCode, reported, fetched, timeouts,
                   sinkRejects, fetchFails, urlArgs, urlOut, pureVars>>

\* main.js:386, 389-391: pushData(record) rejected inside the try block;
\* the catch block runs.
PushMergedRejected(att) ==
    /\ HandlerAlive
    /\ att.pc = "pushMerged"
    /\ CanFail
    /\ sinkRejects' = sinkRejects + 1
    /\ attempts' = (attempts \ {att}) \cup
          {[att EXCEPT !.pc = "pushFallback", !.record = att.baseRecord,
                       !.caught = "push"]}
    /\ UNCHANGED <<firstPage, input, phase, exitCode, reported, seenUrls, enqueuedPages,
                   totalSaved, requests, aborted, dataset, provenance, fetched,
                   timeouts, fetchFails, urlArgs, urlOut, pureVars>>

\* Mutant of PushFallback: the catch block without its totalSaved++.
PushFallbackUncounted(att) ==
    /\ HandlerAlive
    /\ att.pc = "pushFallback"
    /\ dataset' = Append(dataset, att.record)
    /\ provenance' = Append(provenance, Produced("fallback", att))
    /\ AfterSave(att, totalSaved)
    /\ UNCHANGED <<firstPage, input, phase, exitCode, reported, totalSaved, fetched,
                   timeouts, sinkRejects, fetchFails, urlArgs, urlOut, pureVars>>

\* main.js:391-399: pushData(baseRecord) resolved in the catch block.
PushFallback(att) ==
    /\ HandlerAlive
    /\ att.pc = "pushFallback"
    /\ dataset' = Append(dataset, att.record)
    /\ provenance' = Append(provenance, Produced("fallback", att))
    /\ totalSaved' = totalSaved + 1
    /\ AfterSave(att, totalSaved + 1)
    /\ UNCHANGED <<firstPage, input, phase, exitCode, reported, fetched, timeouts,
                   sinkRejects, fetchFails, urlArgs, urlOut, pureVars>>

\* main.js:373 and 391: pushData rejected outside a try block; the handler
\* throws and Crawlee retries the request.
PushRejected(att) ==
    /\ HandlerAlive
    /\ att.pc \in {"pushBase", "pushFallback"}
    /\ CanFail
    /\ sinkRejects' = sinkRejects + 1
    /\ attempts' = attempts \ {att}
    /\ requests' = Reclaimed(requests, att)
    /\ UNCHANGED <<firstPage, input, phase, exitCode, reported, seenUrls, enqueuedPages,
                   totalSaved, aborted, dataset, provenance, fetched, timeouts,
                   fetchFails, urlArgs, urlOut, pureVars>>

\* main.js:340: the handler outlives requestHandlerTimeoutSecs. Crawlee gives
\* the request up for retry; the async function itself is not cancelled and
\* goes on from its await.
HandlerTimeout(att) ==
    /\ phase = "running"
    /\ ~att.zombie
    /\ CanFail
    /\ timeouts' = timeouts + 1
    /\ attempts' = (attempts \ {att}) \cup {[att EXCEPT !.zombie = TRUE]}
    /\ requests' = Reclaimed(requests, att)
    /\ UNCHANGED <<firstPage, input, phase, exitCode, reported, seenUrls, enqueuedPages,
                   totalSaved, aborted, dataset, provenance, fetched, sinkRejects,
                   fetchFails, urlArgs, urlOut, pureVars>>

\* main.js:432-439: crawler.run() resolves, when the pool is aborted or no
\* request is left to run, and the count is logged.
Complete ==
    /\ phase = "running"
    /\ aborted \/ \A r \in requests : r.state \in {"handled", "failed"}
    /\ phase' = "completed"
    /\ reported' = totalSaved
    /\ UNCHANGED <<firstPage, input, exitCode, seenUrls, enqueuedPages, totalSaved, requests,
                   attempts, aborted, dataset, provenance, fetched, timeouts,
                   sinkRejects, fetchFails, urlArgs, urlOut, pureVars>>

\* main.js:442-449: main returned; Actor.exit() ends the process.
Exit ==
    /\ phase = "completed"
    /\ phase' = "exited"
    /\ exitCode' = 0
    /\ UNCHANGED <<firstPage, input, reported, seenUrls, enqueuedPages, totalSaved, requests,
                   attempts, aborted, dataset, provenance, fetched, timeouts,
                   sinkRejects, fetchFails, urlArgs, urlOut, pureVars>>

NotBuilt == [kind |-> "unset", path |-> <<>>, query |-> <<>>]

NotParsed == [kind |-> "unset", whole |-> <<>>, frac |-> <<>>]

NotExtracted == [kind |-> "unset", title |-> ""]

NoPage == [nextData |-> <<>>, primary |-> <<>>, fallback |-> <<>>]

NotTried == [cards |-> <<>>, invoked |-> {}]

\* No helper is being called on its own.
NoCalls ==
    /\ numberText = <<>>
    /\ numberOut = NotParsed
    /\ ldBlocks = <<>>
    /\ ldOut = NotExtracted
    /\ tierPage = NoPage
    /\ tierOut = NotTried

NoArgs ==
    [startUrl |-> NoStartUrl, location |-> "", propertyType |-> "",
     categoryType |-> 1, page |-> 1]

Init ==
    /\ input \in Inputs
    /\ phase = "init"
    /\ exitCode = -1
    /\ reported = -1
    /\ seenUrls = {}
    /\ enqueuedPages = {}
    /\ totalSaved = 0
    /\ requests = {}
    /\ attempts = {}
    /\ aborted = FALSE
    /\ dataset = <<>>
    /\ provenance = <<>>
    /\ fetched = {}
    /\ firstPage = <<>>
    /\ timeouts = 0
    /\ sinkRejects = 0
    /\ fetchFails = 0
    /\ urlArgs = NoArgs
    /\ urlOut = NotBuilt
    /\ NoCalls

NavigationFailedStep == \E r \in requests : NavigationFailed(r)
ListingEmptyStep ==
    \E r \in requests : \E page \in PagesAt(r.pageNo) : ListingEmpty(r, page)
ListingCardsStep ==
    \E r \in requests : \E page \in PagesAt(r.pageNo) : ListingCards(r, page)
PushBaseStep == \E att \in attempts : PushBase(att)
DetailFetchedStep ==
    \E att \in attempts : \E page \in DetailPages : DetailFetched(att, page)
DetailFailedStep == \E att \in attempts : DetailFailed(att)
PushMergedStep == \E att \in attempts : PushMerged(att)
PushMergedRejectedStep == \E att \in attempts : PushMergedRejected(att)
PushFallbackStep == \E att \in attempts : PushFallback(att)
PushRejectedStep == \E att \in attempts : PushRejected(att)
HandlerTimeoutStep == \E att \in attempts : HandlerTimeout(att)

Next ==
    \/ ConfigError
    \/ StartUrlError
    \/ StartCrawl
    \/ NavigationFailedStep
    \/ ListingEmptyStep
    \/ ListingCardsStep
    \/ PushBaseStep
    \/ DetailFetchedStep
    \/ DetailFailedStep
    \/ PushMergedStep
    \/ PushMergedRejectedStep
    \/ PushFallbackStep
    \/ PushRejectedStep
    \/ HandlerTimeoutStep
    \/ Complete
    \/ Exit

Spec == Init /\ [][Next]_vars

\* The runs in which the site has no card to show on any listing page.
EmptySiteNext ==
    \/ ConfigError
    \/ StartUrlError
    \/ StartCrawl
    \/ NavigationFailedStep
    \/ ListingEmptyStep
    \/ Complete
    \/ Exit

\* The event loop runs what is ready: a run does not stop while a step is
\* possible.
EmptySiteSpec == Init /\ [][EmptySiteNext]_vars /\ WF_vars(EmptySiteNext)

\* The runs of a valid configuration with a finite page cap: main passes its
\* checks (main.js:300-334, 421-428) and starts the crawler.
TermInit ==
    /\ Init
    /\ input.max_pages.finite
    /\ InputValid
    /\ PageUrl(1) # Throws

TermNext ==
    \/ StartCrawl
    \/ NavigationFailedStep
    \/ ListingEmptyStep
    \/ ListingCardsStep
    \/ PushBaseStep
    \/ DetailFetchedStep
    \/ DetailFailedStep
    \/ PushMergedStep
    \/ PushMergedRejectedStep
    \/ PushFallbackStep
    \/ PushRejectedStep
    \/ HandlerTimeoutStep
    \/ Complete
    \/ Exit

\* Every fetch returns or fails and every await settles: the event loop runs
\* what is ready, so a run does not stop while a step is possible.
TermSpec == TermInit /\ [][TermNext]_vars /\ WF_vars(TermNext)

\* The crawl over a site whose cards carry any of the links, without
\* timeouts and sink rejections.
LinkPagesAt(pageNo) ==
    IF pageNo <= MaxPageNo THEN LinkPages
    ELSE {[nextData |-> <<>>, html |-> <<>>]}

LinkInputs ==
    [startUrl : {NoStartUrl}, location : {"dubai"}, propertyType : {"apartment"},
     categoryType : {1}, results_wanted : {NotFinite}, max_pages : {TwoHalves},
     collectDetails : BOOLEAN]

LinkInit == Init /\ input \in LinkInputs

LinkListingEmptyStep ==
    \E r \in requests : \E page \in LinkPagesAt(r.pageNo) : ListingEmpty(r, page)
LinkListingCardsStep ==
    \E r \in requests : \E page \in LinkPagesAt(r.pageNo) : ListingCards(r, page)

LinkNext ==
    \/ StartCrawl
    \/ LinkListingEmptyStep
    \/ LinkListingCardsStep
    \/ PushBaseStep
    \/ DetailFetchedStep
    \/ DetailFailedStep
    \/ PushMergedStep
    \/ PushFallbackStep
    \/ Complete
    \/ Exit

LinkSpec == LinkInit /\ [][LinkNext]_vars

\* buildSearchUrl on its own: one call, on arguments drawn from UrlArgs.
QueryParams ==
    {<<"page", "1">>, <<"page", "9">>, <<"c", "1">>, <<"q", "sea%20view">>,
     <<"q", "sea+view">>}

QueryUrls ==
    {Url(SearchPath, q) :
        q \in UNION {[1..n -> QueryParams] : n \in 0..MaxQueryLen}}

UrlLocations == {"", "dubai", "Dubai  Marina!"}
UrlPropertyTypes == {"", "apartment"}
UrlCategoryTypes == {1, 2}

UrlArgs ==
    [startUrl : QueryUrls \cup {NoStartUrl, BadStartUrl},
     location : UrlLocations,
     propertyType : UrlPropertyTypes,
     categoryType : UrlCategoryTypes,
     page : 1..(MaxPageNo + 1)]

UrlInit ==
    /\ input = [startUrl |-> NoStartUrl, location |-> "", propertyType |-> "apartment",
                categoryType |-> 1, results_wanted |-> TwoHalves,
                max_pages |-> TwoHalves, collectDetails |-> FALSE]
    /\ phase = "init"
    /\ exitCode = -1
    /\ reported = -1
    /\ seenUrls = {}
    /\ enqueuedPages = {}
    /\ totalSaved = 0
    /\ requests = {}
    /\ attempts = {}
    /\ aborted = FALSE
    /\ dataset = <<>>
    /\ provenance = <<>>
    /\ fetched = {}
    /\ firstPage = <<>>
    /\ timeouts = 0
    /\ sinkRejects = 0
    /\ fetchFails = 0
    /\ urlArgs \in UrlArgs
    /\ urlOut = NotBuilt
    /\ NoCalls

BuildUrl ==
    /\ urlOut = NotBuilt
    /\ urlOut' = buildSearchUrl(urlArgs.startUrl, urlArgs.location,
                                urlArgs.propertyType, urlArgs.categoryType,
                                urlArgs.page)
    /\ UNCHANGED <<crawlVars, urlArgs, pureVars>>

UrlSpec == UrlInit /\ [][BuildUrl]_vars

\* The crawl's variables while a helper is called on its own.
IdleCrawl ==
    /\ input = [startUrl |-> NoStartUrl, location |-> "", propertyType |-> "apartment",
                categoryType |-> 1, results_wanted |-> TwoHalves,
                max_pages |-> TwoHalves, collectDetails |-> FALSE]
    /\ phase = "init"
    /\ exitCode = -1
    /\ reported = -1
    /\ seenUrls = {}
    /\ enqueuedPages = {}
    /\ totalSaved = 0
    /\ requests = {}
    /\ attempts = {}
    /\ aborted = FALSE
    /\ dataset = <<>>
    /\ provenance = <<>>
    /\ fetched = {}
    /\ firstPage = <<>>
    /\ timeouts = 0
    /\ sinkRejects = 0
    /\ fetchFails = 0
    /\ urlArgs = NoArgs
    /\ urlOut = NotBuilt

\* numberFromText on its own: one call, on a text drawn from Texts.
TextChars == {"0", "1", ".", ",", "a"}

Texts == UNION {[1..n -> TextChars] : n \in 0..MaxTextLen}

NullNumber == [kind |-> "null", whole |-> <<>>, frac |-> <<>>]

NaN == [kind |-> "NaN", whole |-> <<>>, frac |-> <<>>]

NotComma(c) == c # ","

\* [\d.]
IsNumberChar(c) == c \in Digits \/ c = "."

\* The longest run of characters of the set allowed in s from position i on.
RunFrom(s, i, allowed) ==
    LET ends == {j \in i..Len(s) : \A k \in i..j : s[k] \in allowed}
    IN IF ends = {} THEN <<>>
       ELSE SubSeq(s, i, CHOOSE j \in ends : \A k \in ends : k <= j)

\* s.match(/[\d.]+/): the leftmost longest run of digits and points; the
\* empty sequence stands for no match.
MatchNumber(s) ==
    LET starts == {i \in 1..Len(s) : IsNumberChar(s[i])}
    IN IF starts = {} THEN <<>>
       ELSE RunFrom(s, CHOOSE i \in starts : \A k \in starts : i <= k, Digits \cup {"."})

\* A run of digits without its leading zeros.
DropLeadingZeros(d) == SubSeq(d, Len(RunFrom(d, 1, {"0"})) + 1, Len(d))

\* A run of digits without its trailing zeros.
DropTrailingZeros(d) ==
    LET keep == {j \in 0..Len(d) : \A k \in (j + 1)..Len(d) : d[k] = "0"}
    IN SubSeq(d, 1, CHOOSE j \in keep : \A k \in keep : j <= k)

\* Number(token) for a string of digits and points: NaN with two points or
\* without a digit, else the decimal value, as the digits before and after
\* the point.
Number(token) ==
    LET points == {i \in 1..Len(token) : token[i] = "."}
    IN IF Cardinality(points) > 1 \/ Cardinality(points) = Len(token) THEN NaN
       ELSE LET p == IF points = {} THEN Len(token) + 1 ELSE CHOOSE i \in points : TRUE
            IN [kind |-> "number",
                whole |-> DropLeadingZeros(SubSeq(token, 1, p - 1)),
                frac |-> DropTrailingZeros(SubSeq(token, p + 1, Len(token)))]

\* numberFromText, main.js:22-26
numberFromText(text) ==
    IF text = <<>> THEN NullNumber
    ELSE LET match == MatchNumber(SelectSeq(text, NotComma))
         IN IF match # <<>> THEN Number(match) ELSE NullNumber

NumberInit ==
    /\ IdleCrawl
    /\ numberText \in Texts
    /\ numberOut = NotParsed
    /\ ldBlocks = <<>>
    /\ ldOut = NotExtracted
    /\ tierPage = NoPage
    /\ tierOut = NotTried

ParseNumber ==
    /\ numberOut = NotParsed
    /\ numberOut' = numberFromText(numberText)
    /\ UNCHANGED <<crawlVars, urlArgs, urlOut, numberText, ldBlocks, ldOut, tierPage, tierOut>>

NumberSpec == NumberInit /\ [][ParseNumber]_vars

\* The extractors of a listing page on their own: one page, drawn from
\* TierPages, on which any of the three tiers may find cards.
TierPages ==
    {[nextData |-> extractNextData(a), primary |-> extractListingCards(b),
      fallback |-> extractListingCards(c)] :
        a \in LinkLists(Urls), b \in LinkLists(Urls), c \in LinkLists(Urls)}

\* extractListingCards, main.js:106-160: the cards of the data-testid
\* selectors, and those of the generic selectors if there are none.
CardsOfSelectors(primary, fallback) ==
    IF primary # <<>> THEN primary ELSE fallback

\* The tiers that run on a page, main.js:347-355 and 131: extractNextData
\* always, extractListingCards when it gave no card, its generic selectors
\* when the data-testid selectors gave none.
TiersInvoked(page) ==
    {1} \cup (IF page.nextData = <<>>
              THEN {2} \cup (IF page.primary = <<>> THEN {3} ELSE {})
              ELSE {})

TierInit ==
    /\ IdleCrawl
    /\ numberText = <<>>
    /\ numberOut = NotParsed
    /\ ldBlocks = <<>>
    /\ ldOut = NotExtracted
    /\ tierPage \in TierPages
    /\ tierOut = NotTried

\* main.js:346-355
TryTiers ==
    /\ tierOut = NotTried
    /\ tierOut' =
          [cards |-> ExtractCards(
                         [nextData |-> tierPage.nextData,
                          html |-> CardsOfSelectors(tierPage.primary,
                                                    tierPage.fallback)]),
           invoked |-> TiersInvoked(tierPage)]
    /\ UNCHANGED <<crawlVars, urlArgs, urlOut, numberText, numberOut, ldBlocks,
                   ldOut, tierPage>>

TierSpec == TierInit /\ [][TryTiers]_vars

\* extractJsonLd on its own: one call, on the ld+json blocks of a page. A
\* block is empty, is not JSON, is JSON that is not an object, is an object
\* of another @type, or is a listing with a name.
LdBlocks ==
    {[kind |-> k, name |-> ""] : k \in {"empty", "unparsable", "primitive", "other"}}
    \cup {[kind |-> "listing", name |-> n] : n \in {"A", "B"}}

LdPages == UNION {[1..n -> LdBlocks] : n \in 0..MaxBlocks}

LdNull == [kind |-> "null", title |-> ""]

\* main.js:168: the first five blocks
Scripts(blocks) == SubSeq(blocks, 1, IF Len(blocks) < 5 THEN Len(blocks) ELSE 5)

\* main.js:170-192, one pass of the loop body without its catch: continue,
\* an exception of JSON.parse, the end of the body, or the returned object.
LoopBody(b) ==
    CASE b.kind = "empty" -> [kind |-> "continue", title |-> ""]
      [] b.kind = "unparsable" -> [kind |-> "throws", title |-> ""]
      [] b.kind = "primitive" -> [kind |-> "continue", title |-> ""]
      [] b.kind = "other" -> [kind |-> "continue", title |-> ""]
      [] b.kind = "listing" -> [kind |-> "object", title |-> b.name]

\* Mutant of InnerTry: the loop body without its own catch.
InnerTryUncaught(b) == LoopBody(b)

\* main.js:172-196: catch { continue; }
InnerTry(b) ==
    IF LoopBody(b).kind = "throws" THEN [kind |-> "continue", title |-> ""]
    ELSE LoopBody(b)

RECURSIVE ScanBlocks(_)
\* main.js:169-197: the loop, up to the first return or exception
ScanBlocks(scripts) ==
    IF scripts = <<>> THEN LdNull
    ELSE IF InnerTry(Head(scripts)).kind = "continue" THEN ScanBlocks(Tail(scripts))
    ELSE InnerTry(Head(scripts))

\* extractJsonLd, main.js:166-203: the outer catch logs and null is returned
extractJsonLd(blocks) ==
    IF ScanBlocks(Scripts(blocks)).kind = "throws" THEN LdNull
    ELSE ScanBlocks(Scripts(blocks))

LdInit ==
    /\ IdleCrawl
    /\ numberText = <<>>
    /\ numberOut = NotParsed
    /\ ldBlocks \in LdPages
    /\ ldOut = NotExtracted
    /\ tierPage = NoPage
    /\ tierOut = NotTried

ExtractLd ==
    /\ ldOut = NotExtracted
    /\ ldOut' = extractJsonLd(ldBlocks)
    /\ UNCHANGED <<crawlVars, urlArgs, urlOut, numberText, numberOut, ldBlocks,
                   tierPage, tierOut>>

LdSpec == LdInit /\ [][ExtractLd]_vars

\* ------------------------------------------------ router variant (part_000)
\* src/unnamed/part_000 keeps the same three pieces of state but queues one
\* request per detail page, labelled 'detail', which a second handler
\* serves; up to routerMaxConcurrency handlers run at a time.

\* part_000:378
routerMaxConcurrency == 12

\* buildSearchUrl, part_000:36-59
routerBuildSearchUrl(startUrl, location, propertyType, categoryType, page) ==
    IF startUrl.kind = "bad" THEN Throws
    ELSE IF startUrl.kind = "url"
    THEN Url(startUrl.path,
             SerializeQuery(SearchParamsSet(ParseQuery(startUrl.query),
                                            "page", String(page))))
    ELSE IF ~Truthy(location) THEN Throws
    ELSE LET categorySlug == IF categoryType = 2 THEN <<"r", "e", "n", "t">>
                             ELSE <<"b", "u", "y">>
             actionSlug == IF categoryType = 2
                           THEN <<"f", "o", "r", "-", "r", "e", "n", "t">>
                           ELSE <<"f", "o", "r", "-", "s", "a", "l", "e">>
             locSlug == normalize(location)
             typeSlug == normalize(Or(propertyType, "property"))
         IN Url(<<<<"e", "n">>, categorySlug,
                  typeSlug \o <<"-">> \o actionSlug \o <<"-">> \o locSlug>>,
                SerializeQuery(SearchParamsSet(ParseQuery(<<>>),
                                               "page", String(page))))

RouterPageUrl(page) ==
    routerBuildSearchUrl(input.startUrl, input.location, input.propertyType,
                         input.categoryType, page)

\* The URL of a detail request, in the shape of the listing URLs: the card's
\* url string is its one path segment.
CardUrl(u) == Url(<< <<u>> >>, <<>>)

\* A request of the router's queue; userData is label and baseRecord, and
\* pageNo, which a detail request has not (0 here).
RouterRequest(url, pageNo, label, baseRecord) ==
    [url |-> url, pageNo |-> pageNo, retryCount |-> 0, state |-> "pending",
     label |-> label, baseRecord |-> baseRecord]

\* crawler.addRequests: a URL the queue already knows is not added again.
RouterAddRequest(reqs, url, pageNo, label, baseRecord) ==
    IF \E r \in reqs : r.url = url THEN reqs
    ELSE reqs \cup {RouterRequest(url, pageNo, label, baseRecord)}

\* The running request a handler run serves.
RouterRequestOf(reqs, att) ==
    {r \in reqs :
        /\ r.state = "running"
        /\ IF att.pageNo = 0
           THEN r.label = "detail" /\ r.url = CardUrl(att.baseRecord.url)
           ELSE r.label = "listing" /\ r.pageNo = att.pageNo}

RouterHandled(reqs, att) ==
    (reqs \ RouterRequestOf(reqs, att))
    \cup {[r EXCEPT !.state = "handled"] : r \in RouterRequestOf(reqs, att)}

\* The listing pages as part_000's one extractor sees them, part_000:291
RouterPagesAt(pageNo) ==
    IF pageNo <= MaxPageNo THEN {page \in ListingPages : page.nextData = <<>>}
    ELSE {[nextData |-> <<>>, html |-> <<>>]}

\* part_000:297-340 from card k on, up to the next await or the handler's end.
RouterResume(att, k, saved, reqs) ==
    LET j == NextNew(att.cards, k, seenUrls)
        nextPage == att.pageNo + 1
        nextUrl == RouterPageUrl(nextPage)
    IN IF j <= Len(att.cards)
       THEN /\ seenUrls' = seenUrls \cup {att.cards[j].url}
            /\ attempts' = (attempts \ {att}) \cup
                 {[att EXCEPT !.idx = j,
                              !.pc = IF input.collectDetails
                                     THEN "addRequests" ELSE "pushBase",
                              !.baseRecord = BaseRecord(att.cards[j]),
                              !.record = BaseRecord(att.cards[j])]}
            /\ requests' =
                 IF input.collectDetails
                 THEN RouterAddRequest(reqs, CardUrl(att.cards[j].url), 0, "detail",
                                       BaseRecord(att.cards[j]))
                 ELSE reqs
            /\ UNCHANGED enqueuedPages
       ELSE /\ attempts' = attempts \ {att}
            /\ UNCHANGED seenUrls
            /\ IF ShouldPaginate(att.pageNo, saved) /\ nextUrl \notin enqueuedPages
               THEN /\ enqueuedPages' = enqueuedPages \cup {nextUrl}
                    /\ requests' = RouterAddRequest(RouterHandled(reqs, att), nextUrl,
                                                    nextPage, "listing", NoObject)
               ELSE /\ UNCHANGED enqueuedPages
                    /\ requests' = RouterHandled(reqs, att)

RouterCanFetch(r) ==
    /\ Running
    /\ r.state = "pending"
    /\ Cardinality({q \in requests : q.state = "running"}) < routerMaxConcurrency

\* The inputs of the router's runs: valid criteria, a quota of 1 or 2 records.
RouterInputs ==
    {i \in Inputs :
        /\ i.startUrl = NoStartUrl /\ i.location = "dubai" /\ i.categoryType = 1
        /\ i.max_pages = TwoHalves
        /\ i.results_wanted \in {Num(2), Num(4)}}

RouterInit == Init /\ input \in RouterInputs

\* part_000:393-407: the first page is enqueued and the crawler started.
RouterStartCrawl ==
    /\ phase = "init"
    /\ InputValid
    /\ RouterPageUrl(1) # Throws
    /\ enqueuedPages' = enqueuedPages \cup {RouterPageUrl(1)}
    /\ requests' = {RouterRequest(RouterPageUrl(1), 1, "listing", NoObject)}
    /\ phase' = "running"
    /\ UNCHANGED <<firstPage, input, exitCode, reported, seenUrls, totalSaved, attempts,
                   aborted, dataset, provenance, fetched, timeouts, sinkRejects,
                   fetchFails, urlArgs, urlOut, pureVars>>

\* part_000:286-341: the default handler on a listing page, up to its first
\* await; a page without cards goes on to the pagination block.
DefaultHandler(r, page) ==
    /\ RouterCanFetch(r)
    /\ r.label = "listing"
    /\ fetched' = fetched \cup {r.pageNo}
    /\ RouterResume(NewAttempt(r, page.html), 1, totalSaved,
                    (requests \ {r}) \cup {[r EXCEPT !.state = "running"]})
    /\ UNCHANGED <<firstPage, input, phase, exitCode, reported, totalSaved, aborted,
                   dataset, provenance, timeouts, sinkRejects, fetchFails, urlArgs,
                   urlOut, pureVars>>

\* part_000:308-316: pushData(baseRecord) resolved, details off.
DefaultHandlerPushed(att) ==
    /\ HandlerAlive
    /\ att.pc = "pushBase"
    /\ dataset' = Append(dataset, att.record)
    /\ provenance' = Append(provenance, Produced("listing", att))
    /\ totalSaved' = totalSaved + 1
    /\ IF QuotaReached(totalSaved + 1)
       THEN /\ aborted' = TRUE
            /\ attempts' = attempts \ {att}
            /\ requests' = RouterHandled(requests, att)
            /\ UNCHANGED <<seenUrls, enqueuedPages>>
       ELSE /\ RouterResume(att, att.idx + 1, totalSaved + 1, requests)
            /\ UNCHANGED aborted
    /\ UNCHANGED <<firstPage, input, phase, exitCode, reported, fetched, timeouts,
                   sinkRejects, fetchFails, urlArgs, urlOut, pureVars>>

\* part_000:318-324: addRequests for the card's detail page resolved.
DefaultHandlerAdded(att) ==
    /\ HandlerAlive
    /\ att.pc = "addRequests"
    /\ RouterResume(att, att.idx + 1, totalSaved, requests)
    /\ UNCHANGED <<firstPage, input, phase, exitCode, reported, totalSaved, aborted,
                   dataset, provenance, fetched, timeouts, sinkRejects, fetchFails,
                   urlArgs, urlOut, pureVars>>

\* part_000:343-360: the detail handler on a fetched detail page, up to its
\* await of pushData; with the quota reached it stops the pool and returns.
DetailHandler(r, page) ==
    /\ RouterCanFetch(r)
    /\ r.label = "detail"
    /\ IF QuotaReached(totalSaved)
       THEN /\ aborted' = TRUE
            /\ requests' = (requests \ {r}) \cup {[r EXCEPT !.state = "handled"]}
            /\ UNCHANGED attempts
       ELSE /\ attempts' = attempts \cup
                 {[pageNo |-> 0, retryCount |-> r.retryCount, cards |-> <<>>,
                   idx |-> 0, pc |-> "pushDetail", baseRecord |-> r.baseRecord,
                   record |-> MergedRecord(r.baseRecord,
                                           DetailData(page, r.baseRecord.url)),
                   detail |-> DetailData(page, r.baseRecord.url),
                   caught |-> "none", zombie |-> FALSE]}
            /\ requests' = (requests \ {r}) \cup {[r EXCEPT !.state = "running"]}
            /\ UNCHANGED aborted
    /\ UNCHANGED <<firstPage, input, phase, exitCode, reported, seenUrls, enqueuedPages,
                   totalSaved, dataset, provenance, fetched, timeouts, sinkRejects,
                   fetchFails, urlArgs, urlOut, pureVars>>

\* part_000:360-370: pushData(record) resolved.
DetailHandlerPushed(att) ==
    /\ HandlerAlive
    /\ att.pc = "pushDetail"
    /\ dataset' = Append(dataset, att.record)
    /\ provenance' = Append(provenance, Produced("merged", att))
    /\ totalSaved' = totalSaved + 1
    /\ aborted' = (aborted \/ QuotaReached(totalSaved + 1))
    /\ attempts' = attempts \ {att}
    /\ requests' = RouterHandled(requests, att)
    /\ UNCHANGED <<firstPage, input, phase, exitCode, reported, seenUrls, enqueuedPages,
                   fetched, timeouts, sinkRejects, fetchFails, urlArgs, urlOut, pureVars>>

\* part_000:380: the fetch of a detail page fails; Crawlee retries the
\* request maxRequestRetries times and then marks it failed. The crawler has
\* no failedRequestHandler. One request's retries can be used up in a run.
DetailRequestFailed(r) ==
    /\ RouterCanFetch(r)
    /\ r.label = "detail"
    /\ fetchFails <= maxRequestRetries
    /\ fetchFails' = fetchFails + 1
    /\ requests' = (requests \ {r}) \cup
          {IF r.retryCount < maxRequestRetries
           THEN [r EXCEPT !.retryCount = @ + 1]
           ELSE [r EXCEPT !.state = "failed"]}
    /\ UNCHANGED <<firstPage, input, phase, exitCode, reported, seenUrls, enqueuedPages,
                   totalSaved, attempts, aborted, dataset, provenance, fetched,
                   timeouts, sinkRejects, urlArgs, urlOut, pureVars>>

DefaultHandlerStep ==
    \E r \in requests : \E page \in RouterPagesAt(r.pageNo) : DefaultHandler(r, page)
DefaultHandlerPushedStep == \E att \in attempts : DefaultHandlerPushed(att)
DefaultHandlerAddedStep == \E att \in attempts : DefaultHandlerAdded(att)
DetailHandlerStep ==
    \E r \in requests : \E page \in DetailPages : DetailHandler(r, page)
DetailHandlerPushedStep == \E att \in attempts : DetailHandlerPushed(att)
DetailRequestFailedStep == \E r \in requests : DetailRequestFailed(r)

RouterNext ==
    \/ RouterStartCrawl
    \/ DefaultHandlerStep
    \/ DefaultHandlerPushedStep
    \/ DefaultHandlerAddedStep
    \/ DetailHandlerStep
    \/ DetailHandlerPushedStep
    \/ DetailRequestFailedStep
    \/ Complete
    \/ Exit

RouterSpec == RouterInit /\ [][RouterNext]_vars

\* ------------------------------------------------------------------ claims

EmittedUrls == {dataset[i].url : i \in 1..Len(dataset)}

NoFaults == timeouts = 0 /\ sinkRejects = 0 /\ fetchFails = 0

\* C1. Dedup invariant: no two records the sink accepted have the same url.
C1_DedupInvariant ==
    \A i, j \in 1..Len(dataset) : dataset[i].url = dataset[j].url => i = j

\* A card of page 2 was skipped because page 1 had already emitted its URL,
\* and the loop went on to another card.
C1_Witness ==
    \E att \in attempts :
        /\ att.pageNo = 2
        /\ att.idx = 2
        /\ att.cards[1].url \in EmittedUrls
        /\ att.cards[1].url # att.cards[2].url
        /\ \E r \in requests : r.pageNo = 1 /\ r.state = "handled"

\* C2. Quota bound: with a finite results_wanted = Q the number of records
\* emitted is at most Q, and no record is emitted from a listing page after
\* the page on which the count reached Q.
C2_QuotaBound ==
    input.results_wanted.finite =>
        /\ 2 * Len(dataset) <= input.results_wanted.halves
        /\ \A i, j \in 1..Len(dataset) :
              (2 * i >= input.results_wanted.halves /\ i < j) =>
                  provenance[j].pageNo <= provenance[i].pageNo

\* C2 for whole numbers Q >= 1 alone, which main.js:309 neither clamps nor
\* rounds: at most Q records are emitted.
C2_QuotaBound_WholeNumbers ==
    (/\ input.results_wanted.finite
     /\ input.results_wanted.halves >= 2
     /\ input.results_wanted.halves % 2 = 0) =>
        2 * Len(dataset) <= input.results_wanted.halves

Field(o, f) == IF f \in DOMAIN o THEN o[f] ELSE Undefined

NonNull(v) == v # Null /\ v # Undefined

\* C4 as claimed. Merge precedence: every field of an emitted merged record
\* is the detail record's value when that is non-null and the listing
\* record's value otherwise.
C4_MergePrecedence ==
    \A i \in 1..Len(dataset) :
        provenance[i].kind = "merged" =>
            \A f \in DOMAIN dataset[i] \cup DOMAIN provenance[i].baseRecord
                     \cup DOMAIN provenance[i].detail :
                Field(dataset[i], f) =
                    IF NonNull(Field(provenance[i].detail, f))
                    THEN Field(provenance[i].detail, f)
                    ELSE Field(provenance[i].baseRecord, f)

\* C5. Detail fallback: a record emitted after the card's detail fetch
\* failed is the only record with its url, it is the listing record (no
\* field of a detail page), and every emission is counted exactly once.
C5_DetailFallback ==
    /\ totalSaved = Len(dataset)
    /\ \A i \in 1..Len(dataset) :
          (provenance[i].kind = "fallback" /\ provenance[i].caught = "fetch") =>
              /\ dataset[i] = provenance[i].baseRecord
              /\ "description" \notin DOMAIN dataset[i]
              /\ Cardinality({j \in 1..Len(dataset) :
                                 dataset[j].url = dataset[i].url}) = 1

\* A record was emitted from the catch block after a failed detail fetch.
C5_Witness ==
    \E i \in 1..Len(dataset) :
        provenance[i].kind = "fallback" /\ provenance[i].caught = "fetch"

\* C6. Configuration validation: with neither startUrl nor location, or with
\* a categoryType other than 1 and 2, the run ends with a fatal error, no
\* page is fetched or enqueued and no record is emitted.
C6_ConfigValidation ==
    (~HasCriteria(input.startUrl, input.location) \/ input.categoryType \notin {1, 2}) =>
        /\ fetched = {}
        /\ requests = {}
        /\ attempts = {}
        /\ dataset = <<>>
        /\ phase \in {"init", "exited"}
        /\ phase = "exited" => exitCode = 1

\* A run with an illegal categoryType and a usable location has ended with
\* the fatal exit code.
C6_Witness ==
    /\ input.categoryType = 3
    /\ HasCriteria(input.startUrl, input.location)
    /\ phase = "exited"
    /\ exitCode = 1

\* The records of dataset are those of the first n URLs of firstPage.
FirstOfPage(n) ==
    /\ Len(dataset) = n
    /\ \A i \in 1..n : dataset[i].url = firstPage[i]

\* C7. Happy path: details off, results_wanted a whole number Q >= 1, no
\* fault, and a first page with at least Q distinct URLs: page 2 is never
\* enqueued or fetched, and once the handler is through exactly the first Q
\* cards in page order are emitted.
C7_HappyPath ==
    LET Q == input.results_wanted.halves \div 2
    IN (/\ ~input.collectDetails
        /\ input.results_wanted.finite
        /\ input.results_wanted.halves >= 2
        /\ input.results_wanted.halves % 2 = 0
        /\ NoFaults
        /\ Len(firstPage) >= Q) =>
           /\ \A r \in requests : r.pageNo = 1
           /\ fetched \subseteq {1}
           /\ Len(dataset) <= Q
           /\ \A i \in 1..Len(dataset) : dataset[i].url = firstPage[i]
           /\ attempts = {} => FirstOfPage(Q)

\* results_wanted = 1 and a first page with two distinct URLs: the run is
\* over with one record.
C7_Witness ==
    /\ ~input.collectDetails
    /\ input.results_wanted = Num(2)
    /\ NoFaults
    /\ Len(firstPage) = 2
    /\ phase = "exited"
    /\ FirstOfPage(1)

IsPage(p) == p[1] = "page"
NotPage(p) == p[1] # "page"

\* The URL built does not depend on location, propertyType, categoryType.
CriteriaIgnored ==
    \A l \in UrlLocations, t \in UrlPropertyTypes, c \in UrlCategoryTypes :
        buildSearchUrl(urlArgs.startUrl, l, t, c, urlArgs.page) = urlOut

\* C9 as claimed. startUrl pass-through: with a startUrl, the URL built for
\* page n differs from the startUrl only in the value of the page parameter,
\* which is n: the path and every other parameter are as they are written in
\* the startUrl, and location, propertyType and categoryType have no effect.
C9_StartUrlPassThrough_Written ==
    (urlArgs.startUrl.kind = "url" /\ urlOut # NotBuilt) =>
        /\ urlOut.kind = "url"
        /\ urlOut.path = urlArgs.startUrl.path
        /\ SelectSeq(urlOut.query, NotPage) = SelectSeq(urlArgs.startUrl.query, NotPage)
        /\ SelectSeq(urlOut.query, IsPage) = << <<"page", String(urlArgs.page)>> >>
        /\ CriteriaIgnored

\* C9 amended. With a startUrl, the URL built for page n has the startUrl's
\* path and, decoded, the startUrl's parameters other than page with their
\* values and in their order; it has exactly one page parameter, valued n,
\* where the startUrl's first page parameter stood, or last if it had none;
\* location, propertyType and categoryType have no effect.
C9_StartUrlPassThrough_Decoded ==
    (urlArgs.startUrl.kind = "url" /\ urlOut # NotBuilt) =>
        LET q == ParseQuery(urlArgs.startUrl.query)
            out == ParseQuery(urlOut.query)
        IN /\ urlOut.kind = "url"
           /\ urlOut.path = urlArgs.startUrl.path
           /\ SelectSeq(out, NotPage) = SelectSeq(q, NotPage)
           /\ SelectSeq(out, IsPage) = << <<"page", String(urlArgs.page)>> >>
           /\ \A i \in 1..Len(out) :
                 IsPage(out[i]) =>
                     IF SelectSeq(q, IsPage) = <<>> THEN i = Len(out)
                     ELSE IsPage(q[i]) /\ SelectSeq(SubSeq(q, 1, i - 1), IsPage) = <<>>
           /\ CriteriaIgnored

\* A startUrl with a page parameter between two others, one of them written
\* with %20, built for another page.
C9_Witness ==
    /\ urlArgs.startUrl.kind = "url"
    /\ urlArgs.startUrl.query =
           << <<"c", "1">>, <<"page", "1">>, <<"q", "sea%20view">> >>
    /\ urlArgs.page = 2
    /\ urlArgs.location = "dubai"
    /\ urlOut # NotBuilt
    /\ urlOut.query = << <<"c", "1">>, <<"page", "2">>, <<"q", "sea+view">> >>

\* C10. Zero-result run: a run with a valid configuration in which no page
\* yields a card ends with exit code 0 and a reported count of zero.
C10_ZeroResultRun ==
    <>(\/ ~InputValid
       \/ PageUrl(1) = Throws
       \/ (phase = "exited" /\ exitCode = 0 /\ reported = 0 /\ dataset = <<>>))

\* A run fetched pages, found no card and ended normally.
C10_Witness ==
    /\ fetched # {}
    /\ seenUrls = {}
    /\ phase = "exited"
    /\ exitCode = 0
    /\ reported = 0

\* C11 as claimed. The two configuration errors are the only aborts before a
\* fetch: with a startUrl or a location, and categoryType 1 or 2, a run that
\* has left its set-up has requested the first listing page.
C11_OnlyConfigAborts_Claimed ==
    (/\ input.categoryType \in {1, 2}
     /\ input.startUrl.kind # "none" \/ input.location # ""
     /\ phase # "init") =>
        \E r \in requests : r.pageNo = 1 /\ r.url = PageUrl(1)

\* C11 amended. A startUrl that new URL() rejects aborts the run as well;
\* with a startUrl that parses, or no startUrl and a location, and
\* categoryType 1 or 2, a run that has left its set-up has requested the
\* first listing page, and has not ended before that page was fetched.
C11_OnlyConfigAborts_Parsable ==
    (/\ input.categoryType \in {1, 2}
     /\ \/ input.startUrl.kind = "url"
        \/ input.startUrl.kind = "none" /\ input.location # ""
     /\ phase # "init") =>
        /\ \E r \in requests : r.pageNo = 1 /\ r.url = PageUrl(1)
        /\ phase \in {"completed", "exited"} => 1 \in fetched

\* A run with a startUrl and no location has fetched its first page.
C11_Witness ==
    /\ input.categoryType \in {1, 2}
    /\ input.startUrl.kind = "url"
    /\ input.location = ""
    /\ 1 \in fetched
    /\ \E r \in requests : r.pageNo = 1 /\ r.url = PageUrl(1)

\* C12. Empty listing page continues pagination: a step in which the handler
\* finds no card on page n, while n is below the page cap and the quota is
\* not reached, leaves page n+1 enqueued.
C12_EmptyPagePaginates ==
    [][\A r \in requests : \A page \in PagesAt(r.pageNo) :
          (ListingEmpty(r, page) /\ ShouldPaginate(r.pageNo, totalSaved)) =>
              /\ PageUrl(r.pageNo + 1) \in enqueuedPages'
              /\ \E q \in requests' : q.pageNo = r.pageNo + 1]_vars

\* The detail handlers that passed the quota check and have yet to count
\* their record.
PastQuotaCheck == {att \in attempts : att.pc = "pushDetail"}

\* C13. Quota check atomic with emission (router variant): the detail steps
\* that passed the totalSaved < quota check never outnumber the slots left,
\* so that no more records are emitted than the quota allows.
C13_QuotaCheckAtomic ==
    /\ 2 * (totalSaved + Cardinality(PastQuotaCheck)) <= RESULTS_WANTED
    /\ 2 * Len(dataset) <= RESULTS_WANTED

\* C14. Listing-page ordering: a request for page n+1 is in the queue only
\* after page n was fetched, and while it is there no handler run is still
\* at work on a card of page n.
C14_ListingOrder ==
    \A r \in requests :
        r.pageNo > 1 =>
            /\ (r.pageNo - 1) \in fetched
            /\ ~\E att \in attempts : att.pageNo = r.pageNo - 1

\* C14 in the router variant: while the request for page 2 waits to be
\* fetched, no detail request of a card of page 1 is still to be served.
C14_ListingOrder_Router ==
    (\E r \in requests : r.label = "listing" /\ r.pageNo = 2 /\ 2 \notin fetched) =>
        \A q \in requests : q.label = "detail" => q.state \in {"handled", "failed"}

\* The cards whose detail page a handler run of main.js is fetching.
Fetching(atts) ==
    {<<att.pageNo, att.retryCount, att.idx>> : att \in {a \in atts : a.pc = "fetchDetail"}}

QueuedUrls(reqs) == {r.url : r \in reqs}

\* C15 in main.js. Stop admitting after quota: in a step that ends with
\* totalSaved at or beyond the quota no request is added to the queue, no
\* fetch of a listing or a detail page is started, and the pool is stopped.
C15_StopAdmitting ==
    [][QuotaReached(totalSaved') =>
          /\ QueuedUrls(requests') \subseteq QueuedUrls(requests)
          /\ Fetching(attempts') \subseteq Fetching(attempts)
          /\ ~(ListingCardsStep \/ ListingEmptyStep \/ NavigationFailedStep)
          /\ aborted']_vars

\* C15 in the router variant. Stop admitting after quota: in a step that
\* ends with totalSaved at or beyond the quota no listing or detail request
\* is added to the queue, no page is fetched, and the pool is stopped.
C15_StopAdmitting_Router ==
    [][QuotaReached(totalSaved') =>
          /\ QueuedUrls(requests') \subseteq QueuedUrls(requests)
          /\ ~(DefaultHandlerStep \/ DetailHandlerStep \/ DetailRequestFailedStep)
          /\ aborted']_vars

\* C16 in main.js. Per-emission quota check: every emission is counted and
\* followed by the quota test in the same step; when it brings totalSaved to
\* the quota the handler run ends there, and from then on no detail fetch is
\* started for a remaining card.
C16_PerEmissionCheck ==
    [][/\ Len(dataset') > Len(dataset) =>
             /\ totalSaved' = totalSaved + 1
             /\ QuotaReached(totalSaved') =>
                   aborted' /\ Cardinality(attempts') < Cardinality(attempts)
       /\ QuotaReached(totalSaved) => Fetching(attempts') \subseteq Fetching(attempts)]_vars

DetailRequests(reqs) == {r.url : r \in {q \in reqs : q.label = "detail"}}

\* C16 in the router variant. Per-emission quota check: every emission is
\* counted and followed by the quota test in the same step, and once
\* totalSaved is at the quota no detail request is scheduled or fetched for
\* a remaining card.
C16_PerEmissionCheck_Router ==
    [][/\ Len(dataset') > Len(dataset) =>
             /\ totalSaved' = totalSaved + 1
             /\ QuotaReached(totalSaved') => aborted'
       /\ QuotaReached(totalSaved) =>
             /\ DetailRequests(requests') \subseteq DetailRequests(requests)
             /\ ~(DetailHandlerStep \/ DetailRequestFailedStep)]_vars

\* C17. Failed detail page is never dropped (router variant): when the run
\* has ended below the quota, every card that was added to seenUrls and
\* whose detail request failed after all its retries has its listing record
\* in the dataset.
C17_FailedDetailNotDropped ==
    (phase \in {"completed", "exited"} /\ ~QuotaReached(totalSaved)) =>
        \A r \in requests :
            (r.label = "detail" /\ r.state = "failed"
                 /\ r.baseRecord.url \in seenUrls) =>
                r.baseRecord.url \in EmittedUrls

\* C18. Listing-page URL is never enqueued twice: a step adds a request only
\* for a URL that was not in enqueuedPages, and adds the URL to
\* enqueuedPages with it, so a pagination step that finds the URL of page
\* n+1 already there enqueues nothing and the crawl ends with the requests
\* already queued; no URL has two requests; and once the crawler runs,
\* before any step, the URL of page 1 is in enqueuedPages.
C18_NoDoubleEnqueue ==
    [][/\ \A q \in requests' :
             (~\E r \in requests : r.url = q.url) =>
                 q.url \notin enqueuedPages /\ q.url \in enqueuedPages'
       /\ \A q1, q2 \in requests' : q1.url = q2.url => q1 = q2
       /\ phase' = "running" => PageUrl(1) \in enqueuedPages']_vars

\* Page 1 was handled twice (a timed-out run and its retry), both runs came
\* to the pagination step, and page 2 is queued once.
C18_Witness ==
    /\ phase = "running" /\ ~aborted /\ timeouts >= 1 /\ attempts = {}
    /\ ShouldPaginate(1, totalSaved)
    /\ \E r \in requests : r.pageNo = 1 /\ r.retryCount >= 1 /\ r.state = "handled"
    /\ PageUrl(2) \in enqueuedPages
    /\ Cardinality({r \in requests : r.pageNo = 2}) = 1

\* The page numbers carried by the listing requests and the handler runs.
PageNumbers(reqs, atts) == {r.pageNo : r \in reqs} \cup {att.pageNo : att \in atts}

IsAbsoluteUrl(c) ==
    \E i \in 2..Len(c) :
        /\ c[i] = ":"
        /\ \E k \in 1..26 : LowerCase[k] = c[1]
        /\ \A j \in 1..(i - 1) : IsAlnum(c[j]) \/ c[j] \in {"+", "-", "."}

\* The absolute URL a link stands for on the site.
Resolved(link) ==
    IF IsAbsoluteUrl(LinkChars(link)) THEN link
    ELSE LinkText(ResolveUrl(LinkChars(link)))

\* The urls of the cards admitted and of the records emitted.
AdmittedUrls == seenUrls \cup EmittedUrls

\* C20. URL validity: the url of every emitted record and of every card in
\* seenUrls is non-null and absolute, and it is what a link that is present
\* and can be resolved resolves to: a card whose link is missing or cannot
\* be resolved is neither emitted nor added to seenUrls.
C20_UrlValidity ==
    \A u \in AdmittedUrls :
        /\ NonNull(u)
        /\ IsAbsoluteUrl(LinkChars(u))
        /\ \E link \in Links :
              /\ Truthy(link)
              /\ ~InvalidUrl(LinkChars(link))
              /\ u = Resolved(link)

\* C21. Title is never empty: every record in the dataset has a title that
\* is a non-empty string, whichever extractor its card came from and
\* whether or not detail-page data was merged into it.
C21_TitleNeverEmpty ==
    \A i \in 1..Len(dataset) : Truthy(Field(dataset[i], "title"))

IsDigit(c) == c \in Digits

\* The first integer or decimal token of s: from the first digit, or the
\* first point that a digit follows, the digits, and a point with the
\* digits after it when digits follow the point.
FirstToken(s) ==
    LET starts == {i \in 1..Len(s) :
                      \/ IsDigit(s[i])
                      \/ s[i] = "." /\ i < Len(s) /\ IsDigit(s[i + 1])}
        i == CHOOSE a \in starts : \A b \in starts : a <= b
        whole == RunFrom(s, i, Digits)
        p == i + Len(whole)
        frac == IF p < Len(s) /\ s[p] = "." THEN RunFrom(s, p + 1, Digits) ELSE <<>>
    IN IF frac = <<>> THEN whole ELSE whole \o <<".">> \o frac

\* C22. Numeric absence: numberFromText never returns NaN; it returns null
\* exactly when the text without its thousands separators has no numeric
\* token, and else the value of the first integer or decimal token.
C22_NumericAbsence ==
    numberOut # NotParsed =>
        LET s == SelectSeq(numberText, NotComma)
        IN /\ numberOut.kind # "NaN"
           /\ numberOut.kind = "null" <=> ~\E i \in 1..Len(s) : IsDigit(s[i])
           /\ (\E i \in 1..Len(s) : IsDigit(s[i])) =>
                 numberOut = Number(FirstToken(s))

\* C23. Tier fallthrough: the cards processed are those of the first tier
\* that found any, unmerged; when tier 1 found cards no later tier ran;
\* when tier 1 found none and tier 2 found cards, the cards are tier 2's
\* and tier 3 did not run.
C23_TierFallthrough ==
    tierOut # NotTried =>
        /\ tierPage.nextData # <<>> =>
              tierOut.cards = tierPage.nextData /\ tierOut.invoked = {1}
        /\ (tierPage.nextData = <<>> /\ tierPage.primary # <<>>) =>
              tierOut.cards = tierPage.primary /\ tierOut.invoked = {1, 2}
        /\ (tierPage.nextData = <<>> /\ tierPage.primary = <<>>) =>
              tierOut.cards = tierPage.fallback

\* Tier 1 found nothing, tiers 2 and 3 would find different cards, and the
\* extractors have run.
C23_Witness ==
    /\ tierOut # NotTried
    /\ tierPage.nextData = <<>>
    /\ tierPage.primary # <<>>
    /\ tierPage.fallback # <<>>
    /\ tierPage.fallback # tierPage.primary

\* The positions, among the blocks that are read, of the listings.
Listings(blocks) ==
    {i \in 1..Len(Scripts(blocks)) : blocks[i].kind = "listing"}

\* C24. Malformed JSON-LD is contained per block: extractJsonLd does not
\* throw; a block that fails to parse is skipped and the scan goes on, so
\* the result is the mapping of the first listing among the blocks read,
\* whatever comes before it, and null when there is none; on an unparsable
\* block followed by a listing it is the mapping of the second block.
C24_JsonLdContained ==
    ldOut # NotExtracted =>
        /\ ldOut.kind # "throws"
        /\ Listings(ldBlocks) = {} => ldOut = LdNull
        /\ Listings(ldBlocks) # {} =>
              LET first == CHOOSE i \in Listings(ldBlocks) :
                               \A j \in Listings(ldBlocks) : i <= j
              IN ldOut = [kind |-> "object", title |-> ldBlocks[first].name]
        /\ (/\ Len(ldBlocks) = 2
            /\ ldBlocks[1].kind = "unparsable"
            /\ ldBlocks[2].kind = "listing") =>
              ldOut = [kind |-> "object", title |-> ldBlocks[2].name]

\* extractJsonLd has run on an unparsable block followed by a listing.
C24_Witness ==
    /\ ldOut # NotExtracted
    /\ Len(ldBlocks) = 2
    /\ ldBlocks[1].kind = "unparsable"
    /\ ldBlocks[2].kind = "listing"
    /\ ldOut.kind = "object"

\* The record is the card with its propertyType, or the input's when the
\* card has none.
CardPlusType(record, card) ==
    /\ DOMAIN record = DOMAIN card \cup {"propertyType"}
    /\ \A f \in DOMAIN card \ {"propertyType"} : record[f] = card[f]
    /\ record.propertyType =
          IF Truthy(Field(card, "propertyType")) THEN card.propertyType
          ELSE input.propertyType

\* The record is a listing card of the site plus the defaulted propertyType.
IsListingRecord(record) ==
    \E u \in Urls : CardPlusType(record, NextCard(u)) \/ CardPlusType(record, HtmlCard(u))

\* C25 in main.js. Details disabled: with collectDetails false a card that
\* is added to seenUrls goes to the sink at once; every emission adds one
\* record, which is a listing card plus the defaulted propertyType, and one
\* to totalSaved; and no detail page is fetched: no handler run waits for
\* one and no step of the detail branch happens.
C25_DetailsDisabled ==
    [][~input.collectDetails =>
          /\ \A att \in attempts' : att.pc = "pushBase"
          /\ ~(DetailFetchedStep \/ DetailFailedStep \/ PushMergedStep
                 \/ PushMergedRejectedStep \/ PushFallbackStep)
          /\ seenUrls' # seenUrls =>
                \E att \in attempts' :
                    att.pc = "pushBase" /\ seenUrls' = seenUrls \cup {att.record.url}
          /\ dataset' # dataset =>
                /\ Len(dataset') = Len(dataset) + 1
                /\ SubSeq(dataset', 1, Len(dataset)) = dataset
                /\ totalSaved' = totalSaved + 1
                /\ IsListingRecord(dataset'[Len(dataset')])
                /\ dataset'[Len(dataset')].url \in seenUrls]_vars

\* Details are off and two records are out: one with its card's
\* propertyType, one with the input's.
C25_Witness ==
    /\ ~input.collectDetails
    /\ totalSaved = 2
    /\ \E i, j \in 1..Len(dataset) :
          dataset[i].propertyType = "villa" /\ dataset[j].propertyType = input.propertyType

\* C25 in the router variant. Details disabled: the same, and no request
\* labelled 'detail' is queued or served.
C25_DetailsDisabled_Router ==
    [][~input.collectDetails =>
          /\ \A att \in attempts' : att.pc = "pushBase"
          /\ \A r \in requests' : r.label # "detail"
          /\ ~(DefaultHandlerAddedStep \/ DetailHandlerStep \/ DetailHandlerPushedStep
                 \/ DetailRequestFailedStep)
          /\ seenUrls' # seenUrls =>
                \E att \in attempts' :
                    att.pc = "pushBase" /\ seenUrls' = seenUrls \cup {att.record.url}
          /\ dataset' # dataset =>
                /\ Len(dataset') = Len(dataset) + 1
                /\ totalSaved' = totalSaved + 1
                /\ IsListingRecord(dataset'[Len(dataset')])]_vars

\* The url values a detail page holds in its JSON-LD blocks.
ForeignUrls ==
    {page.jsonLd.url : page \in {d \in DetailPages : "url" \in DOMAIN d.jsonLd}}

\* C26 in main.js. Authoritative url on merge: the url of a record emitted
\* after a detail fetch is the URL that was fetched for its card, the
\* card's url, and never a url found inside the detail page.
C26_AuthoritativeUrl ==
    \A i \in 1..Len(dataset) :
        provenance[i].kind = "merged" =>
            /\ dataset[i].url = provenance[i].baseRecord.url
            /\ dataset[i].url \in seenUrls
            /\ dataset[i].url \notin ForeignUrls

\* A merged record is out whose detail page carried JSON-LD with a url of
\* its own.
C26_Witness ==
    \E i \in 1..Len(dataset) :
        /\ provenance[i].kind = "merged"
        /\ Field(provenance[i].detail, "description") = "LD text"
        /\ dataset[i].description = "LD text"

\* C26 in the router variant: the url of a record the detail handler
\* emitted is the URL of its request.
C26_AuthoritativeUrl_Router ==
    \A i \in 1..Len(dataset) :
        provenance[i].kind = "merged" =>
            /\ \E r \in requests : r.label = "detail" /\ r.url = CardUrl(dataset[i].url)
            /\ dataset[i].url \notin ForeignUrls

\* C27 in main.js. Counter matches output: totalSaved is the number of
\* records the sink was given, each emission adds exactly one to it and no
\* other step changes it, and when the run has ended and no emission is in
\* progress the count it reported is the number of records in the dataset.
C27_CounterMatchesOutput ==
    [][/\ totalSaved' = Len(dataset')
       /\ totalSaved' # totalSaved =>
             totalSaved' = totalSaved + 1 /\ Len(dataset') = Len(dataset) + 1
       /\ dataset' # dataset => totalSaved' = totalSaved + 1
       /\ (phase' = "exited" /\ exitCode' = 0 /\ attempts' = {}) =>
             reported' = Len(dataset')]_vars

\* C27 in the router variant, for the records its two handlers emit.
C27_CounterMatchesOutput_Router ==
    [][/\ totalSaved' = Len(dataset')
       /\ totalSaved' # totalSaved =>
             totalSaved' = totalSaved + 1 /\ Len(dataset') = Len(dataset) + 1
       /\ dataset' # dataset => totalSaved' = totalSaved + 1
       /\ (phase' = "exited" /\ exitCode' = 0 /\ attempts' = {}
              /\ \A r \in requests' : r.state # "running") =>
             reported' = Len(dataset')]_vars

\* The queue is empty and no step is in flight.
Quiet ==
    /\ \A r \in requests : r.state \in {"handled", "failed"}
    /\ attempts = {}

\* C28. Termination: a run of a valid configuration with a finite page cap,
\* in which every fetch returns or fails, eventually reaches the state in
\* which the queue is empty and no step is in flight, the listing pages it
\* fetched being no more than the page cap allows (page 1, and the pages up
\* to the cap rounded up).
C28_Termination ==
    <>(/\ phase = "exited"
       /\ Quiet
       /\ 2 * Cardinality(fetched) < MAX_PAGES + 2)

\* C28 with the cap as the input gives it: at most max_pages listing pages.
C28_Termination_InputCap ==
    <>(/\ phase = "exited"
       /\ Quiet
       /\ 2 * Cardinality(fetched) <= input.max_pages.halves)

\* C28, the part that holds: the run ends, no request tried more than
\* 1 + maxRequestRetries times and no page fetched past the cap, and in the
\* state claimed unless a handler timed out.
C28_RunEnds ==
    <>[](/\ phase = "exited"
         /\ exitCode = 0
         /\ \A r \in requests : r.retryCount <= maxRequestRetries
         /\ 2 * Cardinality(fetched) < MAX_PAGES + 2
         /\ timeouts = 0 => Quiet)

\* The URLs whose card a step still running is working on.
InProgressUrls ==
    IF HandlerAlive THEN {att.baseRecord.url : att \in attempts} ELSE {}

\* C29. No card is lost on a retried listing step: a URL in seenUrls has
\* either been emitted or is being processed by a step that is still
\* running, so that a retry of the request has no card to skip that the
\* failed attempt did not emit.
C29_NoCardLost == seenUrls \subseteq (EmittedUrls \cup InProgressUrls)

\* C29 in the runs in which no step fails.
C29_NoCardLost_NoFaults == NoFaults => C29_NoCardLost

\* C29, what a retry does with such a URL: whatever page the retry is
\* served, a URL in seenUrls that no running step is working on is never
\* emitted afterwards.
C29_LostForGood ==
    [][\A u \in seenUrls \ (EmittedUrls \cup InProgressUrls) :
          u \notin {dataset'[i].url : i \in 1..Len(dataset')}]_vars

\* The listing-page requests queued or in flight.
Outstanding == {r \in requests : r.state \in {"pending", "running"}}

\* The card loops under way: the handler runs waiting at an await.
CardLoops == IF HandlerAlive THEN attempts ELSE {}

\* C30. Single outstanding listing step: at every moment of a run at most
\* one listing-page step is queued or in flight, and at most one card loop
\* is under way, so that no two card loops interleave on seenUrls and
\* totalSaved.
C30_SingleListingStep ==
    /\ Cardinality(Outstanding) <= 1
    /\ Cardinality(CardLoops) <= 1

\* C30 in the runs in which no handler timed out.
C30_SingleListingStep_NoTimeout == timeouts = 0 => C30_SingleListingStep

====
